---- MODULE Spec2Model ----
(***************************************************************************)
(* A model of src/src/GameTree.js: the immutable game tree, its lazily     *)
(* filled identifier index (_nodeCache), the alias table (_idAliases), the *)
(* memoized height and structure hash, the navigation and traversal        *)
(* methods, and mutate.                                                    *)
(***************************************************************************)
EXTENDS Integers, Sequences, FiniteSets, TLC

\* Largest number of nodes of a tree handed to the constructor or built by a draft.
MaxNodes == 3

(***************************************************************************)
(* JavaScript values.  An id is a number or a string of decimal digits;    *)
(* null is a value of its own.  Strings are sequences of char codes.       *)
(***************************************************************************)
NULL == [t |-> "null", v |-> 0]
Num(n) == [t |-> "num", v |-> n]
\* The string whose characters are the decimal digits of n ("1" for n = 1).
Str(n) == [t |-> "str", v |-> n]

RECURSIVE Digits(_)
Digits(n) == IF n < 10 THEN <<48 + n>> ELSE Digits(n \div 10) \o <<48 + (n % 10)>>

\* The property key an id becomes in obj[id] and `id in obj`: String(id).
\* String(1) and String("1") are the same key "1".
ToPropertyKey(id) == Digits(id.v)

\* JSON.stringify(id): a number prints bare, a string prints quoted.
JSONstringify(id) == IF id.t = "num" THEN Digits(id.v) ELSE <<34>> \o Digits(id.v) \o <<34>>

\* A plain object used as a map: a function from property keys to values.
\* (Only keys of decimal digits occur, none of them a key of Object.prototype.)
In(key, obj) == key \in DOMAIN obj
Put(obj, key, val) == (key :> val) @@ obj
EmptyObject == << >>

(***************************************************************************)
(* Nodes.  A node object is named by its reference 1..n in the tree that   *)
(* holds it; reference 1 is the root, NoRef is a null node.  A tree is     *)
(*   id[r], parentId[r], children[r] (a sequence of references), data[r].  *)
(***************************************************************************)
NoRef == 0
RootRef == 1

RECURSIVE SetToSortedSeq(_)
SetToSortedSeq(S) ==
    IF S = {} THEN << >>
    ELSE LET m == CHOOSE x \in S : \A y \in S : x <= y
         IN <<m>> \o SetToSortedSeq(S \ {m})

\* Every shape of n nodes: node k > 1 hangs below an earlier node.
Shapes(n) == { p \in [1..n -> 0..n] : p[1] = 0 /\ \A k \in 2..n : p[k] \in 1..(k-1) }

\* The tree of shape p whose node r has the id r - 1 of the kind ("num" or "str")
\* and the payload d[r].
MkTree(n, p, kind, d) ==
    [ id       |-> [r \in 1..n |-> [t |-> kind, v |-> r - 1]],
      parentId |-> [r \in 1..n |-> IF r = 1 THEN NULL ELSE [t |-> kind, v |-> p[r] - 1]],
      children |-> [r \in 1..n |-> SetToSortedSeq({k \in 1..n : p[k] = r})],
      data     |-> d ]

NoData(n) == [r \in 1..n |-> 0]

\* Trees whose ids are the numbers 0, 1, ... (the default getId) or the strings "0", "1", ...
Trees ==
    UNION { { MkTree(n, p, "num", NoData(n)) : p \in Shapes(n) }
            \cup { MkTree(n, p, "str", NoData(n)) : p \in Shapes(n) } : n \in 1..MaxNodes }

Size(T) == Len(T.id)
Refs(T) == 1..Size(T)

(***************************************************************************)
(* GameTree.get                                                            *)
(***************************************************************************)
RECURSIVE get_inner(_, _, _, _)
RECURSIVE get_innerLoop(_, _, _, _, _)
\* let inner = node => {...}: memoizes every node it visits.
get_inner(T, cache, node, id) ==
    LET c1 == Put(cache, ToPropertyKey(T.id[node]), node)
    IN IF T.id[node] = id THEN [result |-> node, cache |-> c1]
       ELSE get_innerLoop(T, c1, T.children[node], 1, id)

\* for (let child of node.children) {...}; return null
get_innerLoop(T, cache, kids, i, id) ==
    IF i > Len(kids) THEN [result |-> NoRef, cache |-> cache]
    ELSE LET r == get_inner(T, cache, kids[i], id)
         IN IF r.result # NoRef THEN r
            ELSE get_innerLoop(T, r.cache, kids, i + 1, id)

RECURSIVE warmChildren(_, _, _, _)
\* for (let child of node.children) this._nodeCache[child.id] = child
warmChildren(T, cache, kids, i) ==
    IF i > Len(kids) THEN cache
    ELSE warmChildren(T, Put(cache, ToPropertyKey(T.id[kids[i]]), kids[i]), kids, i + 1)

RECURSIVE get(_, _)
\* get(this, id): [node |-> the node returned or NoRef, this |-> the instance afterwards]
get(this, id) ==
    IF id = NULL THEN [node |-> NoRef, this |-> this]
    ELSE IF In(ToPropertyKey(id), this.idAliases)
    THEN get(this, this.idAliases[ToPropertyKey(id)])
    ELSE
      LET k == ToPropertyKey(id)
          found == IF In(k, this.nodeCache)
                   THEN [result |-> this.nodeCache[k], cache |-> this.nodeCache]
                   ELSE get_inner(this.root, this.nodeCache, RootRef, id)
      IN IF found.result = NoRef
         THEN [node |-> NoRef, this |-> [this EXCEPT !.nodeCache = Put(found.cache, k, NoRef)]]
         ELSE [node |-> found.result,
               this |-> [this EXCEPT !.nodeCache =
                            warmChildren(this.root, found.cache,
                                         this.root.children[found.result], 1)]]

(***************************************************************************)
(* GameTree.getSequence, consumed to its end ([...tree.getSequence(id)])   *)
(***************************************************************************)
RECURSIVE getSequence(_, _)
\* [nodes |-> the nodes yielded, this |-> the instance afterwards]
getSequence(this, id) ==
    LET g == get(this, id)
    IN IF g.node = NoRef THEN [nodes |-> << >>, this |-> g.this]
       ELSE IF Len(g.this.root.children[g.node]) # 1
       THEN [nodes |-> <<g.node>>, this |-> g.this]
       ELSE LET T == g.this.root
                rest == getSequence(g.this, T.id[T.children[g.node][1]])
            IN [nodes |-> <<g.node>> \o rest.nodes, this |-> rest.this]

(***************************************************************************)
(* GameTree.navigate.  currents is a plain object: property key -> id.     *)
(***************************************************************************)
\* currents[id], undefined (here NULL) when the key is missing
Lookup(currents, id) ==
    IF id # NULL /\ In(ToPropertyKey(id), currents) THEN currents[ToPropertyKey(id)] ELSE NULL

RECURSIVE navigate(_, _, _, _)
navigate(this, id, step, currents) ==
    LET g == get(this, id)
        T == this.root
    IN IF g.node = NoRef THEN [node |-> NoRef, this |-> g.this]
       ELSE IF step = 0 THEN g
       ELSE IF step < 0 THEN navigate(g.this, T.parentId[g.node], step + 1, EmptyObject)
       ELSE LET nextId == IF Lookup(currents, T.id[g.node]) # NULL
                          THEN Lookup(currents, T.id[g.node])
                          ELSE IF Len(T.children[g.node]) > 0
                          THEN T.id[T.children[g.node][1]]
                          ELSE NULL
            IN IF nextId = NULL THEN [node |-> NoRef, this |-> g.this]
               ELSE navigate(g.this, nextId, step - 1, currents)

(***************************************************************************)
(* GameTree.listNodes, consumed to its end: pre-order.                     *)
(***************************************************************************)
RECURSIVE listNodes_inner(_, _)
RECURSIVE listNodes_innerLoop(_, _, _)
listNodes_inner(T, node) == <<node>> \o listNodes_innerLoop(T, T.children[node], 1)
listNodes_innerLoop(T, kids, i) ==
    IF i > Len(kids) THEN << >>
    ELSE listNodes_inner(T, kids[i]) \o listNodes_innerLoop(T, kids, i + 1)

listNodes(this) == listNodes_inner(this.root, RootRef)

(***************************************************************************)
(* GameTree.getLevel.  The result is a number or null; null + 1 is 1.      *)
(***************************************************************************)
JSnull == [null |-> TRUE, n |-> 0]
JSnum(n) == [null |-> FALSE, n |-> n]
\* x + 1 for x a number or null (ToNumber(null) = 0)
PlusOne(x) == IF x.null THEN JSnum(1) ELSE JSnum(x.n + 1)

RECURSIVE getLevel(_, _)
\* [level |-> a number or null, this |-> the instance afterwards]
getLevel(this, id) ==
    IF id = this.root.id[RootRef] THEN [level |-> JSnum(0), this |-> this]
    ELSE LET g == get(this, id)
         IN IF g.node = NoRef THEN [level |-> JSnull, this |-> g.this]
            ELSE LET up == getLevel(g.this, this.root.parentId[g.node])
                 IN [level |-> PlusOne(up.level), this |-> up.this]

(***************************************************************************)
(* GameTree.getSection, consumed to its end.  level is a number or null    *)
(* (null < 0 and null === 0 are false, null - 1 is -1).                     *)
(***************************************************************************)
RECURSIVE Flatten(_)
Flatten(ss) == IF ss = << >> THEN << >> ELSE Head(ss) \o Flatten(Tail(ss))

ChildrenOf(T, section) == Flatten([i \in 1..Len(section) |-> T.children[section[i]]])

RECURSIVE getSectionN(_, _)
getSectionN(T, level) ==
    IF level < 0 THEN << >>
    ELSE IF level = 0 THEN <<RootRef>>
    ELSE ChildrenOf(T, getSectionN(T, level - 1))

getSection(this, level) ==
    IF level.null THEN ChildrenOf(this.root, getSectionN(this.root, 0 - 1))
    ELSE getSectionN(this.root, level.n)

(***************************************************************************)
(* GameTree.getCurrentHeight                                               *)
(***************************************************************************)
\* node.children.find(child => child.id === id), NoRef when none
FindChild(T, node, id) ==
    LET hits == {i \in 1..Len(T.children[node]) : T.id[T.children[node][i]] = id}
    IN IF hits = {} THEN NoRef
       ELSE T.children[node][CHOOSE i \in hits : \A j \in hits : i <= j]

RECURSIVE getCurrentHeight_inner(_, _, _)
getCurrentHeight_inner(T, currents, node) ==
    IF node = NoRef THEN 0
    ELSE LET child == IF Lookup(currents, T.id[node]) = NULL
                      THEN (IF Len(T.children[node]) > 0 THEN T.children[node][1] ELSE NoRef)
                      ELSE FindChild(T, node, Lookup(currents, T.id[node]))
         IN 1 + getCurrentHeight_inner(T, currents, child)

getCurrentHeight(this, currents) == getCurrentHeight_inner(this.root, currents, RootRef)

(***************************************************************************)
(* GameTree.getHeight.  heightCache 0 stands for null (a height is >= 1).  *)
(***************************************************************************)
RECURSIVE MaxOf(_, _)
\* Math.max(...xs, floor)
MaxOf(xs, floor) ==
    IF xs = << >> THEN floor
    ELSE LET m == MaxOf(Tail(xs), floor) IN IF Head(xs) > m THEN Head(xs) ELSE m

RECURSIVE getHeight_inner_edges(_, _)
\* A height that counts the steps of the longest path, not its nodes: a leaf is 0.
getHeight_inner_edges(T, node) ==
    IF T.children[node] = << >> THEN 0
    ELSE 1 + MaxOf([i \in 1..Len(T.children[node]) |->
                      getHeight_inner_edges(T, T.children[node][i])], 0)

RECURSIVE getHeight_inner(_, _)
\* let inner = node => 1 + Math.max(...node.children.map(inner), 0)
getHeight_inner(T, node) ==
    1 + MaxOf([i \in 1..Len(T.children[node]) |-> getHeight_inner(T, T.children[node][i])], 0)

\* [height |-> the value returned, this |-> the instance afterwards]
getHeight(this) ==
    LET filled == IF this.heightCache = 0
                  THEN [this EXCEPT !.heightCache = getHeight_inner(this.root, RootRef)]
                  ELSE this
    IN [height |-> filled.heightCache, this |-> filled]

(***************************************************************************)
(* Generators.  Calling a generator function runs none of its body: it     *)
(* returns a generator object in state "suspendedStart".  Each             *)
(* next() runs the body up to the next yield, a return or a throw.         *)
(***************************************************************************)
NewGenerator(fn, startId, step, currents) ==
    [fn |-> fn, startId |-> startId, step |-> step, currents |-> currents,
     state |-> "suspendedStart", node |-> NoRef,
     level |-> JSnull, section |-> << >>, index |-> 0, threw |-> FALSE]

NoGenerator == NewGenerator("none", NULL, 0, EmptyObject)

\* What one next() gives: the generator and the instance afterwards, and a yielded
\* node (done = FALSE), the end of the sequence (done = TRUE) or an exception.
Yield(gen, this, node) ==
    [gen |-> [gen EXCEPT !.state = "suspendedYield", !.node = node],
     this |-> this, value |-> node, done |-> FALSE, threw |-> FALSE]
Return(gen, this) ==
    [gen |-> [gen EXCEPT !.state = "completed", !.node = NoRef],
     this |-> this, value |-> NoRef, done |-> TRUE, threw |-> FALSE]
Throw(gen, this) ==
    [gen |-> [gen EXCEPT !.state = "completed", !.node = NoRef, !.threw = TRUE],
     this |-> this, value |-> NoRef, done |-> TRUE, threw |-> TRUE]

Abs(x) == IF x < 0 THEN 0 - x ELSE x

\* while (node != null) { yield node; ... }: r is the node looked up and the instance.
YieldOrReturn(gen, r) ==
    IF r.node = NoRef THEN Return(gen, r.this) ELSE Yield(gen, r.this, r.node)

\* listNodesVertically(startId, step, currents), one next() of its generator
listNodesVertically_next(gen, this) ==
    IF gen.state = "completed" THEN Return(gen, this)
    ELSE IF gen.state = "suspendedStart"
    THEN IF Abs(gen.step) # 1 THEN Throw(gen, this)
         ELSE YieldOrReturn(gen, get(this, gen.startId))
    ELSE YieldOrReturn(gen, navigate(this, this.root.id[gen.node], gen.step, gen.currents))

\* section.findIndex(node => node.id === startId), 0-based, -1 when none
FindIndex(T, section, id) ==
    LET hits == {i \in 1..Len(section) : T.id[section[i]] = id}
    IN IF hits = {} THEN 0 - 1 ELSE (CHOOSE i \in hits : \A j \in hits : i <= j) - 1

\* level += step for level a number or null
PlusStep(level, step) == IF level.null THEN JSnum(step) ELSE JSnum(level.n + step)

RECURSIVE listNodesHorizontally_outer(_, _, _, _, _)
RECURSIVE listNodesHorizontally_inner(_, _, _, _, _)
\* while (section[index] != null) {...}
listNodesHorizontally_outer(gen, this, level, section, index) ==
    IF ~(0 <= index /\ index < Len(section)) THEN Return(gen, this)
    ELSE listNodesHorizontally_inner(gen, this, level, section, index)

\* while (0 <= index && index < section.length) { yield ...; index += step }, then
\* the move to the next section
listNodesHorizontally_inner(gen, this, level, section, index) ==
    IF 0 <= index /\ index < Len(section)
    THEN Yield([gen EXCEPT !.level = level, !.section = section, !.index = index],
               this, section[index + 1])
    ELSE LET level2 == PlusStep(level, gen.step)
             section2 == IF gen.step > 0 THEN ChildrenOf(this.root, section)
                         ELSE getSection(this, level2)
             index2 == IF gen.step > 0 THEN 0 ELSE Len(section2) - 1
         IN listNodesHorizontally_outer(gen, this, level2, section2, index2)

\* listNodesHorizontally(startId, step), one next() of its generator
listNodesHorizontally_next(gen, this) ==
    IF gen.state = "completed" THEN Return(gen, this)
    ELSE IF gen.state = "suspendedStart"
    THEN IF Abs(gen.step) # 1 THEN Throw(gen, this)
         ELSE LET lv == getLevel(this, gen.startId)
                  section == getSection(lv.this, lv.level)
                  index == FindIndex(this.root, section, gen.startId)
              IN listNodesHorizontally_outer(gen, lv.this, lv.level, section, index)
    ELSE listNodesHorizontally_inner(gen, this, gen.level, gen.section, gen.index + gen.step)

next(gen, this) ==
    IF gen.fn = "listNodesHorizontally" THEN listNodesHorizontally_next(gen, this)
    ELSE listNodesVertically_next(gen, this)

\* [...gen]: next() until done.  A walk that has yielded more nodes than `fuel`
\* is cut there and reported as not ending (ended = FALSE).
RECURSIVE Consume(_, _, _)
RECURSIVE Consumed(_, _)
Consume(gen, this, fuel) == Consumed(next(gen, this), fuel)
\* r is what the next() gave.
Consumed(r, fuel) ==
    IF r.threw THEN [nodes |-> << >>, this |-> r.this, threw |-> TRUE, ended |-> TRUE]
    ELSE IF r.done THEN [nodes |-> << >>, this |-> r.this, threw |-> FALSE, ended |-> TRUE]
    ELSE IF fuel = 0 THEN [nodes |-> <<r.value>>, this |-> r.this, threw |-> FALSE, ended |-> FALSE]
    ELSE [Consume(r.gen, r.this, fuel - 1) EXCEPT !.nodes = <<r.value>> \o @]

\* More yields than this and the walk has come back to a node it left.
Fuel(this) == 2 * Size(this.root)

listNodesHorizontally(this, startId, step) ==
    Consume(NewGenerator("listNodesHorizontally", startId, step, EmptyObject), this, Fuel(this))

listNodesVertically(this, startId, step, currents) ==
    Consume(NewGenerator("listNodesVertically", startId, step, currents), this, Fuel(this))

\* yield* this.listNodesVertically(this.root.id, 1, currents)
listCurrentNodes(this, currents) == listNodesVertically(this, this.root.id[RootRef], 1, currents)

\* yield* this.listCurrentNodes({})
listMainNodes(this) == listCurrentNodes(this, EmptyObject)

(***************************************************************************)
(* GameTree.onCurrentLine, onMainLine.  Destructuring a null node and      *)
(* reading .children of a null node throw a TypeError.                     *)
(***************************************************************************)
RECURSIVE onCurrentLine(_, _, _)
\* [value |-> the boolean returned, threw |-> a TypeError was thrown, this |-> ...]
onCurrentLine(this, id, currents) ==
    LET g == get(this, id)
        T == this.root
    IN IF g.node = NoRef THEN [value |-> FALSE, threw |-> TRUE, this |-> g.this]
       ELSE LET parentId == T.parentId[g.node]
                selected == Lookup(currents, parentId)
            IN IF parentId = NULL THEN [value |-> TRUE, threw |-> FALSE, this |-> g.this]
               ELSE IF T.id[g.node] = selected
               THEN onCurrentLine(g.this, parentId, currents)
               ELSE IF selected # NULL
               THEN [value |-> FALSE, threw |-> FALSE, this |-> g.this]
               ELSE LET pg == get(g.this, parentId)
                    IN IF pg.node = NoRef
                       THEN [value |-> FALSE, threw |-> TRUE, this |-> pg.this]
                       ELSE IF Len(T.children[pg.node]) > 0 /\ T.children[pg.node][1] = g.node
                       THEN onCurrentLine(pg.this, parentId, currents)
                       ELSE [value |-> FALSE, threw |-> FALSE, this |-> pg.this]

onMainLine(this, id) == onCurrentLine(this, id, EmptyObject)

(***************************************************************************)
(* GameTree.getStructureHash.  `result` is a 32-bit integer: result * 33   *)
(* is exact in a double, and ^ takes it modulo 2^32.  A 32-bit value is    *)
(* kept as its two 16-bit halves, hi * 65536 + lo, which are its bits      *)
(* whether it is read signed (^) or unsigned (>>> 0).                      *)
(***************************************************************************)
HashSeed == 5381
HashMultiplier == 33
Half == 65536

Word(hi, lo) == [null |-> FALSE, hi |-> hi, lo |-> lo]
NoWord == [null |-> TRUE, hi |-> 0, lo |-> 0]

RECURSIVE Xor(_, _)
\* a ^ b for 0 <= a, b < 65536
Xor(a, b) ==
    IF a = 0 THEN b
    ELSE IF b = 0 THEN a
    ELSE ((a + b) % 2) + 2 * Xor(a \div 2, b \div 2)

\* result = (result * 33) ^ c, for a char code c < 65536
hashChar(w, c) ==
    LET lo33 == w.lo * HashMultiplier
        hi33 == w.hi * HashMultiplier + (lo33 \div Half)
    IN Word(hi33 % Half, Xor(lo33 % Half, c))

RECURSIVE hash(_, _)
\* for (let i = 0; i < str.length; i++) result = (result * 33) ^ str.charCodeAt(i)
\* (testing w first makes TLC evaluate it before the next character, not after the last)
hash(w, str) == IF w.null \/ str = << >> THEN w ELSE hash(hashChar(w, Head(str)), Tail(str))

RECURSIVE getStructureHash_inner(_, _, _)
RECURSIVE getStructureHash_forEach(_, _, _, _)
\* hash('[' + JSON.stringify(node.id) + ','); node.children.forEach(inner); return hash(']')
getStructureHash_inner(T, w, node) ==
    LET w1 == hash(w, <<91>> \o JSONstringify(T.id[node]) \o <<44>>)
        w2 == getStructureHash_forEach(T, w1, T.children[node], 1)
    IN hash(w2, <<93>>)

getStructureHash_forEach(T, w, kids, i) ==
    IF i > Len(kids) THEN w
    ELSE getStructureHash_forEach(T, getStructureHash_inner(T, w, kids[i]), kids, i + 1)

RECURSIVE Digits32(_)
Digits32(w) ==
    IF w.hi = 0 /\ w.lo < 10 THEN <<48 + w.lo>>
    ELSE LET t == (w.hi % 10) * Half + w.lo
         IN Digits32(Word(w.hi \div 10, t \div 10)) \o <<48 + (t % 10)>>

\* w + '' without the >>> 0: a value with the top bit set prints as a negative number.
Int32ToString(w) ==
    IF w.hi < Half \div 2 THEN Digits32(w)
    ELSE <<45>> \o Digits32(Word((Half - 1 - w.hi + (IF w.lo = 0 THEN 1 ELSE 0)) % Half,
                                  (Half - w.lo) % Half))

RECURSIVE Uint32ToString(_)
\* (w >>> 0) + '': the decimal digits of hi * 65536 + lo, by long division by 10
Uint32ToString(w) ==
    IF w.hi = 0 /\ w.lo < 10 THEN <<48 + w.lo>>
    ELSE LET t == (w.hi % 10) * Half + w.lo
         IN Uint32ToString(Word(w.hi \div 10, t \div 10)) \o <<48 + (t % 10)>>

\* [value |-> the string returned, this |-> the instance afterwards]
getStructureHash(this) ==
    LET filled == IF this.structureHashCache.null
                  THEN [this EXCEPT !.structureHashCache =
                           getStructureHash_inner(this.root, Word(0, HashSeed), RootRef)]
                  ELSE this
    IN [value |-> Uint32ToString(filled.structureHashCache), this |-> filled]

(***************************************************************************)
(* The constructor, given a root with all its fields set.  rootObj is the  *)
(* identity (address) of the root object, which === compares.              *)
(***************************************************************************)
GameTree(rootObj, T) ==
    [root |-> T, rootObj |-> rootObj, nodeCache |-> EmptyObject, idAliases |-> EmptyObject,
     heightCache |-> 0, structureHashCache |-> NoWord]

(***************************************************************************)
(* Draft (./Draft, not among the sources): what a draft of `this` holds    *)
(* when the mutator returns.  Either it kept the root object; or it wrote  *)
(* the root's payload, which copies the root and keeps the caches; or it   *)
(* appended or removed a node, which clears height and hash and may        *)
(* record aliases.                                                         *)
(***************************************************************************)
Payloads == 0..1

\* Alias tables of a tree whose ids are of the kind: stale ids (ids no tree uses)
\* redirected to ids.  The first stale id points at a node's id or at the second
\* stale id, which points at a node's id or nowhere: chains, no cycles.
AliasTablesOf(kind) ==
    LET mk(i) == [t |-> kind, v |-> i]
        a == ToPropertyKey(mk(MaxNodes))
        b == ToPropertyKey(mk(MaxNodes + 1))
        targets == {mk(i) : i \in 0..MaxNodes - 1}
    IN {EmptyObject}
       \cup { (a :> x) : x \in targets \cup {mk(MaxNodes + 1)} }
       \cup { (a :> mk(MaxNodes + 1)) @@ (b :> x) : x \in targets }
AliasTables(T) == AliasTablesOf(T.id[RootRef].t)

\* The index of every node of T: a valid _nodeCache.
FullIndex(T) == [k \in {ToPropertyKey(T.id[r]) : r \in Refs(T)} |->
                    CHOOSE r \in Refs(T) : ToPropertyKey(T.id[r]) = k]

\* A root object other than obj: one a draft has just made.
NewObj(obj) == 1 - obj

\* T with one more node, under p; its id is the next one of the tree's kind.
AppendNode(T, p) ==
    LET n == Size(T)
        newId == [T.id[RootRef] EXCEPT !.v = n]
    IN [ id       |-> Append(T.id, newId),
         parentId |-> Append(T.parentId, T.id[p]),
         children |-> Append([T.children EXCEPT ![p] = Append(@, n + 1)], << >>),
         data     |-> Append(T.data, 0) ]

\* T without the node added last (a leaf).
RemoveNode(T) ==
    LET n == Size(T)
        Cut(q) == SubSeq(q, 1, n - 1)
    IN [ id       |-> Cut(T.id),
         parentId |-> Cut(T.parentId),
         children |-> [r \in 1..n - 1 |->
                          IF Len(T.children[r]) > 0 /\ T.children[r][Len(T.children[r])] = n
                          THEN SubSeq(T.children[r], 1, Len(T.children[r]) - 1)
                          ELSE T.children[r]],
         data     |-> Cut(T.data) ]

Edited(T) ==
    (IF Size(T) < MaxNodes THEN {AppendNode(T, p) : p \in Refs(T)} ELSE {})
    \cup (IF Size(T) > 1 THEN {RemoveNode(T)} ELSE {})

Drafts(this) ==
    \* no structural change: draft.root is this.root
    { [root |-> this.root, rootObj |-> this.rootObj, passOnNodeCache |-> pass,
       nodeCache |-> EmptyObject, idAliases |-> this.idAliases,
       heightCache |-> h, structureHashCache |-> this.structureHashCache]
      : pass \in BOOLEAN, h \in {0, this.heightCache} }
    \cup
    \* the root's payload written (the root is copied, even when the value is the old one)
    { [root |-> [this.root EXCEPT !.data[RootRef] = d], rootObj |-> NewObj(this.rootObj),
       passOnNodeCache |-> TRUE, nodeCache |-> FullIndex(this.root),
       idAliases |-> this.idAliases,
       heightCache |-> this.heightCache, structureHashCache |-> this.structureHashCache]
      : d \in Payloads }
    \cup
    \* a node appended or removed
    UNION { { [root |-> T, rootObj |-> NewObj(this.rootObj), passOnNodeCache |-> FALSE,
               nodeCache |-> EmptyObject, idAliases |-> a,
               heightCache |-> 0, structureHashCache |-> NoWord]
              : a \in AliasTables(T) } : T \in Edited(this.root) }

(***************************************************************************)
(* GameTree.mutate, given the draft as the mutator left it.                *)
(* [tree |-> the instance returned, fresh |-> it is a new GameTree]        *)
(***************************************************************************)
\* mutate without `if (draft.root === this.root) return this`.
mutate_alwaysNew(this, draft) ==
    LET tree == GameTree(draft.rootObj, draft.root)
    IN [tree |-> [tree EXCEPT
                    !.nodeCache = IF draft.passOnNodeCache THEN draft.nodeCache ELSE @,
                    !.idAliases = draft.idAliases,
                    !.structureHashCache = draft.structureHashCache,
                    !.heightCache = draft.heightCache],
        fresh |-> TRUE]

mutate(this, draft) ==
    IF draft.rootObj = this.rootObj THEN [tree |-> this, fresh |-> FALSE]
    ELSE LET tree == GameTree(draft.rootObj, draft.root)
         IN [tree |-> [tree EXCEPT
                         !.nodeCache = IF draft.passOnNodeCache THEN draft.nodeCache ELSE @,
                         !.idAliases = draft.idAliases,
                         !.structureHashCache = draft.structureHashCache,
                         !.heightCache = draft.heightCache],
             fresh |-> TRUE]

(***************************************************************************)
(* State: the GameTree instance the caller holds, and what its last call   *)
(* to mutate returned ("this", "new"; "none" when the last call was not a  *)
(* mutate), and the generator object the caller holds, if any.             *)
(***************************************************************************)
VARIABLES root, rootObj, nodeCache, idAliases, heightCache, structureHashCache,
          mutateReturned, gen

tree == <<root, rootObj, nodeCache, idAliases, heightCache, structureHashCache>>
vars == <<root, rootObj, nodeCache, idAliases, heightCache, structureHashCache,
          mutateReturned, gen>>

This == [root |-> root, rootObj |-> rootObj, nodeCache |-> nodeCache, idAliases |-> idAliases,
         heightCache |-> heightCache, structureHashCache |-> structureHashCache]

\* The instance is `this`.
Is(this) ==
    /\ root = this.root
    /\ rootObj = this.rootObj
    /\ nodeCache = this.nodeCache
    /\ idAliases = this.idAliases
    /\ heightCache = this.heightCache
    /\ structureHashCache = this.structureHashCache

\* The instance becomes `this`.
Becomes(this) ==
    /\ root' = this.root
    /\ rootObj' = this.rootObj
    /\ nodeCache' = this.nodeCache
    /\ idAliases' = this.idAliases
    /\ heightCache' = this.heightCache
    /\ structureHashCache' = this.structureHashCache

\* The arguments callers pass.
MkId(T, i) == IF T.id[RootRef].t = "num" THEN Num(i) ELSE Str(i)
Ids == {NULL} \cup {Num(i) : i \in 0..MaxNodes + 1} \cup {Str(i) : i \in 0..MaxNodes + 1}
Steps == (0 - MaxNodes)..MaxNodes
Levels == {JSnull} \cup {JSnum(n) : n \in 0..MaxNodes}
\* currents: no selection, or a selection at the root (any id of the tree's kind)
Currents(T) ==
    {EmptyObject} \cup { (ToPropertyKey(T.id[RootRef]) :> MkId(T, i)) : i \in 0..Size(T) }
\* The ids of the kind the tree uses, and null.
KindIds(T) == {NULL} \cup {MkId(T, i) : i \in 0..MaxNodes + 1}
\* Where a walk starts: null, the root, the node added last, an id no node has.
StartIds(T) == {NULL, T.id[RootRef], T.id[Size(T)], MkId(T, MaxNodes)}

Init ==
    /\ \E T \in Trees : Is(GameTree(0, T))
    /\ mutateReturned = "none"
    /\ gen = NoGenerator

\* The call is not a mutate, and the caller's generator is not touched.
NotMutate ==
    /\ mutateReturned' = "none"
    /\ UNCHANGED gen

Get(id) ==
    /\ Becomes(get(This, id).this)
    /\ NotMutate

GetSequence(id) ==
    /\ Becomes(getSequence(This, id).this)
    /\ NotMutate

Navigate(id, step, currents) ==
    /\ Becomes(navigate(This, id, step, currents).this)
    /\ NotMutate

ListNodes ==
    /\ Len(listNodes(This)) > 0
    /\ UNCHANGED tree
    /\ NotMutate

\* [...tree.listNodesHorizontally(startId, step)]
ListNodesHorizontally(startId, step) ==
    /\ Becomes(listNodesHorizontally(This, startId, step).this)
    /\ NotMutate

\* [...tree.listNodesVertically(startId, step, currents)]
ListNodesVertically(startId, step, currents) ==
    /\ Becomes(listNodesVertically(This, startId, step, currents).this)
    /\ NotMutate

ListCurrentNodes(currents) ==
    /\ Becomes(listCurrentNodes(This, currents).this)
    /\ NotMutate

ListMainNodes ==
    /\ Becomes(listMainNodes(This).this)
    /\ NotMutate

GetLevel(id) ==
    /\ Becomes(getLevel(This, id).this)
    /\ NotMutate

GetSection(level) ==
    /\ Len(getSection(This, level)) >= 0
    /\ UNCHANGED tree
    /\ NotMutate

GetCurrentHeight(currents) ==
    /\ getCurrentHeight(This, currents) > 0
    /\ UNCHANGED tree
    /\ NotMutate

GetHeight ==
    /\ Becomes(getHeight(This).this)
    /\ NotMutate

GetStructureHash ==
    /\ Becomes(getStructureHash(This).this)
    /\ NotMutate

OnCurrentLine(id, currents) ==
    /\ Becomes(onCurrentLine(This, id, currents).this)
    /\ NotMutate

OnMainLine(id) ==
    /\ Becomes(onMainLine(This, id).this)
    /\ NotMutate

Mutate(draft) ==
    /\ Becomes(mutate(This, draft).tree)
    /\ mutateReturned' = IF mutate(This, draft).fresh THEN "new" ELSE "this"
    /\ UNCHANGED gen

Next ==
    \/ \E id \in Ids : Get(id)
    \/ \E id \in KindIds(root) : GetSequence(id)
    \/ \E id \in StartIds(root), step \in {0 - 1, 0, 1}, currents \in Currents(root) :
          Navigate(id, step, currents)
    \/ ListNodes
    \/ \E id \in StartIds(root), step \in {0 - 1, 1} : ListNodesHorizontally(id, step)
    \/ \E id \in StartIds(root), step \in {0 - 1, 1}, currents \in Currents(root) :
          ListNodesVertically(id, step, currents)
    \/ \E currents \in Currents(root) : ListCurrentNodes(currents)
    \/ ListMainNodes
    \/ \E id \in KindIds(root) : GetLevel(id)
    \/ \E level \in Levels : GetSection(level)
    \/ \E currents \in Currents(root) : GetCurrentHeight(currents)
    \/ GetHeight
    \/ GetStructureHash
    \/ \E id \in StartIds(root), currents \in Currents(root) : OnCurrentLine(id, currents)
    \/ \E id \in KindIds(root) : OnMainLine(id)
    \/ \E draft \in Drafts(This) : Mutate(draft)

Spec == Init /\ [][Next]_vars

(***************************************************************************)
(* The caches alone: an instance that is read and mutated.                 *)
(***************************************************************************)
NextCaches ==
    \/ \E id \in KindIds(root) : Get(id)
    \/ GetHeight
    \/ GetStructureHash
    \/ \E draft \in Drafts(This) : Mutate(draft)

SpecCaches == Init /\ [][NextCaches]_vars

(***************************************************************************)
(* Generator objects: the caller calls a generator function, which returns *)
(* a generator, and calls next() on it when and if it iterates.  `gen` is  *)
(* the generator it holds; gen.threw records that a next() of it threw.    *)
(***************************************************************************)
CallListNodesHorizontally(startId, step) ==
    /\ gen' = NewGenerator("listNodesHorizontally", startId, step, EmptyObject)
    /\ mutateReturned' = "none"
    /\ UNCHANGED tree

CallListNodesVertically(startId, step, currents) ==
    /\ gen' = NewGenerator("listNodesVertically", startId, step, currents)
    /\ mutateReturned' = "none"
    /\ UNCHANGED tree

GenNext ==
    /\ gen.fn # "none"
    /\ LET r == next(gen, This)
       IN /\ gen' = r.gen
          /\ Becomes(r.this)
    /\ mutateReturned' = "none"

NextGen ==
    \/ \E id \in KindIds(root), step \in Steps : CallListNodesHorizontally(id, step)
    \/ \E id \in KindIds(root), step \in Steps, currents \in Currents(root) :
          CallListNodesVertically(id, step, currents)
    \/ GenNext

SpecGen == Init /\ [][NextGen]_vars

(***************************************************************************)
(* What the methods are expected to return, read off the tree itself.      *)
(***************************************************************************)
RECURSIVE Resolve(_, _)
\* The id an id stands for once the alias table is followed to its end.
Resolve(aliases, id) ==
    IF id # NULL /\ In(ToPropertyKey(id), aliases)
    THEN Resolve(aliases, aliases[ToPropertyKey(id)])
    ELSE id

\* The node of T whose id is exactly id, NoRef when there is none.
NodeWithId(T, id) ==
    IF \E r \in Refs(T) : T.id[r] = id THEN CHOOSE r \in Refs(T) : T.id[r] = id ELSE NoRef

\* The node an id names in the instance.
Named(this, id) == NodeWithId(this.root, Resolve(this.idAliases, id))

\* The parent of a node, NoRef for the root.
Parent(T, r) ==
    IF r = RootRef THEN NoRef ELSE CHOOSE q \in Refs(T) : \E i \in 1..Len(T.children[q]) : T.children[q][i] = r

RECURSIVE Depth(_, _)
\* The number of parent steps from r up to the root.
Depth(T, r) == IF r = RootRef THEN 0 ELSE 1 + Depth(T, Parent(T, r))

\* The number of nodes on the longest path from the root to a leaf.
LongestPath(T) == 1 + (CHOOSE d \in {Depth(T, r) : r \in Refs(T)} :
                          \A r \in Refs(T) : Depth(T, r) <= d)

Nodes(seq) == {seq[i] : i \in 1..Len(seq)}

\* Every entry of the identifier index is one a lookup by that very id leaves:
\* a node under its own id's key, null under a key no node's id has.
IndexSound ==
    \A k \in DOMAIN nodeCache :
        IF nodeCache[k] = NoRef
        THEN \A r \in Refs(root) : ToPropertyKey(root.id[r]) # k
        ELSE nodeCache[k] \in Refs(root) /\ ToPropertyKey(root.id[nodeCache[k]]) = k

(***************************************************************************)
(* C1.  After any earlier lookups, get(id) returns the node whose id is    *)
(* exactly the alias-resolved id, and null when there is none.             *)
(***************************************************************************)
GetReturnsTheNamedNode == \A id \in Ids : get(This, id).node = Named(This, id)

(***************************************************************************)
(* C2.  mutate with a draft whose root is this.root returns this, no new   *)
(* GameTree, and the call leaves root, index, aliases, height cache and    *)
(* hash cache as they were.                                                *)
(***************************************************************************)
MutateNoOpLaw ==
    /\ [](\A draft \in Drafts(This) :
            draft.rootObj = rootObj => mutate(This, draft) = [tree |-> This, fresh |-> FALSE])
    /\ [][mutateReturned' = "this" => UNCHANGED tree]_vars

\* A no-op mutate has returned an instance whose caches and alias table are filled.
MutateNoOpSeen ==
    /\ mutateReturned = "this"
    /\ nodeCache # EmptyObject
    /\ idAliases # EmptyObject
    /\ heightCache # 0
    /\ ~structureHashCache.null

(***************************************************************************)
(* C3.  For every node of the tree, onMainLine(id) is true exactly when    *)
(* the node is among those listMainNodes() yields.                         *)
(***************************************************************************)
MainLineLaw ==
    \A r \in Refs(root) :
        LET on == onMainLine(This, root.id[r])
            main == listMainNodes(This)
        IN ~on.threw /\ (on.value <=> r \in Nodes(main.nodes))

\* The same, for an instance whose index holds only sound entries.
MainLineLawOfSoundIndex == IndexSound => MainLineLaw

RECURSIVE Tokens(_, _)
RECURSIVE TokensOfAll(_, _)
\* The whole token string of the subtree at r: "[" id "," children "]".
Tokens(T, r) == <<91>> \o JSONstringify(T.id[r]) \o <<44>> \o TokensOfAll(T, T.children[r]) \o <<93>>
TokensOfAll(T, kids) ==
    IF kids = << >> THEN << >> ELSE Tokens(T, Head(kids)) \o TokensOfAll(T, Tail(kids))

RECURSIVE ParseUint32(_, _)
\* The 32-bit value a string of decimal digits denotes, read left to right.
ParseUint32(w, digits) ==
    IF w.null \/ digits = << >> THEN w
    ELSE LET lo10 == w.lo * 10 + (Head(digits) - 48)
         IN ParseUint32(Word((w.hi * 10 + (lo10 \div Half)) % Half, lo10 % Half), Tail(digits))

\* No sign, no leading zero, and at most 4294967295.
RECURSIVE LexLeq(_, _)
LexLeq(a, b) ==
    IF a = << >> THEN TRUE
    ELSE IF Head(a) # Head(b) THEN Head(a) < Head(b)
    ELSE LexLeq(Tail(a), Tail(b))
IsUint32Decimal(str) ==
    /\ Len(str) \in 1..10
    /\ \A i \in 1..Len(str) : str[i] \in 48..57
    /\ (Len(str) > 1 => str[1] # 48)
    /\ (Len(str) = 10 => LexLeq(str, <<52, 50, 57, 52, 57, 54, 55, 50, 57, 53>>))

HashLaw ==
    LET first == getStructureHash(This)
        word == hash(Word(0, HashSeed), Tokens(root, RootRef))
    IN /\ \A d \in [Refs(root) -> Payloads] :
            getStructureHash(GameTree(0, [root EXCEPT !.data = d])).value = first.value
       /\ IsUint32Decimal(first.value)
       /\ ParseUint32(Word(0, 0), first.value) = word
       /\ getStructureHash(first.this).value = first.value

\* The hash of a full-size tree is cached, and its payload has been changed since.
HashSeen ==
    /\ ~structureHashCache.null
    /\ Size(root) = MaxNodes
    /\ root.data[RootRef] = 1

(***************************************************************************)
(* C6.  For every node of the tree, getSequence(id) starts with the node,  *)
(* goes on from each node to its only child, ends at the first node whose  *)
(* child count is not 1, and yields at most getHeight() - getLevel(id)     *)
(* nodes.                                                                  *)
(***************************************************************************)
SequenceLaw ==
    \A r \in Refs(root) :
        LET seq == getSequence(This, root.id[r]).nodes
            h == getHeight(This).height
            l == getLevel(This, root.id[r]).level
        IN /\ Len(seq) >= 1
           /\ seq[1] = r
           /\ \A i \in 1..Len(seq) - 1 : root.children[seq[i]] = <<seq[i + 1]>>
           /\ Len(root.children[seq[Len(seq)]]) # 1
           /\ ~l.null
           /\ Len(seq) <= h - l.n

\* The same, for an instance whose index holds only sound entries.
SequenceLawOfSoundIndex == IndexSound => SequenceLaw

(***************************************************************************)
(* C7.  A call of listNodesHorizontally or listNodesVertically with a step *)
(* other than 1 and -1 raises at that call.                                *)
(***************************************************************************)
InvalidStepRaisesAtTheCall ==
    (gen.fn # "none" /\ Abs(gen.step) # 1) => gen.threw

\* What the code does: nothing runs until the first next(), which throws
\* before any node is yielded.
InvalidStepRaisesAtFirstNext ==
    (gen.fn # "none" /\ Abs(gen.step) # 1) =>
        /\ gen.state \in {"suspendedStart", "completed"}
        /\ (gen.state = "completed" => gen.threw)
        /\ (gen.state = "suspendedStart" => ~gen.threw /\ next(gen, This).threw)

(***************************************************************************)
(* C8.  For an id that is null or names no node, no lookup raises: get,    *)
(* navigate and getLevel give null, the sequences are empty, onCurrentLine *)
(* and onMainLine give false; and navigate gives null when the selected id *)
(* names no node.                                                          *)
(***************************************************************************)
NotFoundNeverRaises ==
    /\ \A id \in Ids :
         Named(This, id) = NoRef =>
           /\ get(This, id).node = NoRef
           /\ getLevel(This, id).level.null
           /\ getSequence(This, id).nodes = << >>
           /\ \A step \in {0 - 1, 1} :
                LET hor == listNodesHorizontally(This, id, step)
                IN ~hor.threw /\ hor.nodes = << >>
           /\ ~onMainLine(This, id).threw
           /\ ~onMainLine(This, id).value
           /\ \A currents \in Currents(root) :
                /\ \A step \in Steps : navigate(This, id, step, currents).node = NoRef
                /\ \A step \in {0 - 1, 1} :
                     LET ver == listNodesVertically(This, id, step, currents)
                     IN ~ver.threw /\ ver.nodes = << >>
                /\ ~onCurrentLine(This, id, currents).threw
                /\ ~onCurrentLine(This, id, currents).value
    /\ \A r \in Refs(root), currents \in Currents(root) :
         (Lookup(currents, root.id[r]) # NULL /\ Named(This, Lookup(currents, root.id[r])) = NoRef)
            => navigate(This, root.id[r], 1, currents).node = NoRef

(***************************************************************************)
(* C9.  For every currents and every node of the tree, onCurrentLine is    *)
(* true exactly when the node is on the path listCurrentNodes walks.       *)
(***************************************************************************)
CurrentLineLaw ==
    \A r \in Refs(root), currents \in Currents(root) :
        LET on == onCurrentLine(This, root.id[r], currents)
            line == listCurrentNodes(This, currents)
        IN ~on.threw /\ (on.value <=> r \in Nodes(line.nodes))

\* currents selects, at each node it has an entry for, one of that node's children.
SelectsChildren(T, currents) ==
    \A r \in Refs(T) :
        Lookup(currents, T.id[r]) # NULL => FindChild(T, r, Lookup(currents, T.id[r])) # NoRef

\* The same, for such currents and an instance whose index holds only sound entries.
CurrentLineLawOfChildren ==
    IndexSound =>
      \A r \in Refs(root), currents \in Currents(root) :
        SelectsChildren(root, currents) =>
          LET on == onCurrentLine(This, root.id[r], currents)
              line == listCurrentNodes(This, currents)
          IN ~on.threw /\ (on.value <=> r \in Nodes(line.nodes))

(***************************************************************************)
(* C10.  getLevel(id) is null exactly when get(id) is; otherwise it is the *)
(* depth of the node get(id) returns, navigate(id, -level) is the root and *)
(* navigate(id, -(level + 1)) is null, whatever currents is.               *)
(***************************************************************************)
LevelLaw ==
    \A id \in Ids :
        LET g == get(This, id)
            l == getLevel(This, id).level
        IN /\ l.null <=> g.node = NoRef
           /\ g.node # NoRef =>
                /\ l.n = Depth(root, g.node)
                /\ \A currents \in Currents(root) :
                     /\ navigate(This, id, 0 - l.n, currents).node = RootRef
                     /\ navigate(This, id, 0 - (l.n + 1), currents).node = NoRef

\* The same, for the ids of the tree's nodes in an instance whose index is sound.
LevelLawOfNodes ==
    IndexSound =>
      \A r \in Refs(root) :
        LET l == getLevel(This, root.id[r]).level
        IN /\ ~l.null
           /\ l.n = Depth(root, r)
           /\ navigate(This, root.id[r], 0 - l.n, EmptyObject).node = RootRef
           /\ navigate(This, root.id[r], 0 - (l.n + 1), EmptyObject).node = NoRef
====
